---- MODULE Spec2Model ----
(***************************************************************************)
(* A model of AnnotationForm (annotation_editor.py): the extraction of     *)
(* form widgets into the in-memory Page/Annotation tree, the lazy          *)
(* open/close life cycle of the PyMuPDF document handle self.doc, the      *)
(* update of one widget by annotation id or by label, the bulk import of   *)
(* an annotation JSON, the JSON export and save_pdf.                       *)
(*                                                                         *)
(* The PDF engine (fitz) is an external collaborator. It is modelled as a  *)
(* store: a document is a sequence of pages, a page a sequence of widgets, *)
(* a widget a record of the attributes the program reads or assigns.  An   *)
(* attribute assigned to a widget reaches the document only through        *)
(* widget.update(); an operation on a closed document raises.              *)
(***************************************************************************)
EXTENDS Integers, Sequences, FiniteSets, TLC

\* ------------------------------------------------------------------ values

\* Python's None and an Optional value: the empty tuple, or a 1-tuple.
None == <<>>
Some(x) == <<x>>
IsNone(o) == Len(o) = 0
Get(o) == o[1]

\* Python truthiness of an Optional[str] / Optional[int] / Optional[dict].
TruthyStr(o) == Len(o) = 1 /\ o[1] # ""
TruthyInt(o) == Len(o) = 1 /\ o[1] # 0
TruthyMap(o) == Len(o) = 1 /\ DOMAIN o[1] # {}

\* A mapping with no key (the JSON object {}).
EmptyMap == [k \in {} |-> 0]

\* Rectangles of the engine are floats; they are held in half points, so
\* that a rectangle off the integer grid exists.  int(f) of a non-negative
\* float f truncates.
PyInt(h) == h \div 2
PyFloat(n) == 2 * n

\* How many update calls (by id, by label, bulk import) one session makes.
MaxUpdates == 2

\* ------------------------------------------------------- the PDF on disk

EngineWidget(name, ftype, value, label, rect, size, font) ==
  [field_name |-> name, field_type_string |-> ftype, field_value |-> value,
   field_label |-> label, rect |-> rect, text_fontsize |-> size,
   text_font |-> font]

\* The file at pdf_path: three pages.  Page 1 holds a named text field with
\* no value yet and an unnamed check box off the integer grid, both labelled
\* "name"; page 2 holds no widget; page 3 holds a named field without label
\* whose type the mapping does not know.
File ==
  << << EngineWidget(Some("f1_01"), Some("Text"), None, Some("name"),
                     <<144, 100, 296, 124>>, 9, "Helv"),
        EngineWidget(None, Some("CheckBox"), Some("Off"), Some("name"),
                     <<21, 40, 60, 61>>, 8, "Arial") >>,
     << >>,
     << EngineWidget(Some("f2_01"), Some("Button"), Some("v2"), None,
                     <<20, 20, 220, 44>>, 8, "Arial") >> >>

PageNumbers == 1..Len(File)

\* Every widget of the file, as <<page number, index on the page>>.
WidgetRefs == UNION {{<<p, i>> : i \in 1..Len(File[p])} : p \in PageNumbers}

\* ------------------------------------------------------------- data model

Position(x, y, width, height, unit) ==
  [x |-> x, y |-> y, width |-> width, height |-> height, unit |-> unit]

Formatting(font_size, font_family, alignment, max_length, pattern, required) ==
  [font_size |-> font_size, font_family |-> font_family,
   alignment |-> alignment, max_length |-> max_length, pattern |-> pattern,
   required |-> required]

DataReference(path, default_value) ==
  [path |-> path, default_value |-> default_value]

Annotation(id, type, position, formatting, data_reference, label) ==
  [id |-> id, type |-> type, position |-> position, formatting |-> formatting,
   data_reference |-> data_reference, label |-> label]

Pages(page_number, annotations) ==
  [page_number |-> page_number, annotations |-> annotations]

UpdateField(default_value, label, position, formatting) ==
  [default_value |-> default_value, label |-> label, position |-> position,
   formatting |-> formatting]

PositionKeys == {"x", "y", "width", "height", "unit"}
FormattingKeys == {"font_size", "font_family", "alignment", "max_length",
                   "pattern", "required"}

\* dict.get(key): None when the key is absent.  The values of a mapping are
\* Optionals already (None is JSON null).
DictGet(d, key) == IF key \in DOMAIN d THEN d[key] ELSE None

\* Position(**pos) raises TypeError unless the five fields are all given
\* and nothing else.
PositionOk(pos) == DOMAIN pos = PositionKeys

\* Formatting(**fmt): every field defaults to None, an unknown key raises.
FormattingOk(fmt) == DOMAIN fmt \subseteq FormattingKeys

FormattingFromDict(fmt) ==
  Formatting(DictGet(fmt, "font_size"), DictGet(fmt, "font_family"),
             DictGet(fmt, "alignment"), DictGet(fmt, "max_length"),
             DictGet(fmt, "pattern"), DictGet(fmt, "required"))

\* UpdateField.from_dict: an empty or absent position/formatting mapping
\* becomes None.  Only called when FromDictOk.
FromDictOk(data) ==
  /\ TruthyMap(DictGet(data, "position")) =>
       PositionOk(Get(DictGet(data, "position")))
  /\ TruthyMap(DictGet(data, "formatting")) =>
       FormattingOk(Get(DictGet(data, "formatting")))

from_dict(data) ==
  LET pos == DictGet(data, "position")
      fmt == DictGet(data, "formatting")
  IN UpdateField(DictGet(data, "default_value"), DictGet(data, "label"),
                 IF TruthyMap(pos) THEN pos ELSE None,
                 IF TruthyMap(fmt) THEN Some(FormattingFromDict(Get(fmt)))
                                   ELSE None)

\* ------------------------------------------------------------- extraction

\* str(n) of a small natural number, for the f-string field_{n}.
PyStr(n) ==
  CASE n = 0 -> "0" [] n = 1 -> "1" [] n = 2 -> "2" [] n = 3 -> "3"
    [] OTHER -> "n"

\* The fixed mapping of the engine's field types; anything else is "text".
map_pymupdf_field_type(field_type) ==
  CASE field_type = "Text" -> "text"
    [] field_type = "CheckBox" -> "checkbox"
    [] field_type = "RadioButton" -> "radio"
    [] field_type = "ComboBox" -> "dropdown"
    [] field_type = "ListBox" -> "list"
    [] field_type = "Signature" -> "signature"
    [] OTHER -> "text"

\* The body of the inner try for one widget, given the annotations
\* collected on the page so far.
ExtractWidget(widget, annotations) ==
  LET field_name == IF TruthyStr(widget.field_name)
                    THEN Get(widget.field_name)
                    ELSE "field_" \o PyStr(Len(annotations))
      field_type == IF TruthyStr(widget.field_type_string)
                    THEN Get(widget.field_type_string) ELSE ""
      field_value == IF TruthyStr(widget.field_value)
                     THEN Get(widget.field_value) ELSE ""
      rect == widget.rect
      position == Position(PyInt(rect[1]), PyInt(rect[2]),
                           PyInt(rect[3] - rect[1]), PyInt(rect[4] - rect[2]),
                           "pt")
  IN Annotation(field_name, map_pymupdf_field_type(field_type), position,
                Formatting(Some(8), Some("Arial"), Some("left"), Some(100),
                           Some(""), Some(FALSE)),
                DataReference(field_name, Some(field_value)),
                widget.field_label)

\* ExtractPage as it would be if the placeholder id counted the widgets
\* enumerated so far, the skipped ones included.
RECURSIVE ExtractPageNumberingByPlace(_, _, _, _)
ExtractPageNumberingByPlace(p, i, annotations, bad) ==
  IF i > Len(File[p]) THEN annotations
  ELSE IF <<p, i>> \in bad
  THEN ExtractPageNumberingByPlace(p, i + 1, annotations, bad)
  ELSE ExtractPageNumberingByPlace(
         p, i + 1,
         Append(annotations,
                ExtractWidget(File[p][i], [k \in 1..(i - 1) |-> File[p][k]])),
         bad)

\* The loop over one page's widgets from widget i on; a widget in `bad`
\* raises inside the inner try and is skipped.
RECURSIVE ExtractPage(_, _, _, _)
ExtractPage(p, i, annotations, bad) ==
  IF i > Len(File[p]) THEN annotations
  ELSE IF <<p, i>> \in bad THEN ExtractPage(p, i + 1, annotations, bad)
  ELSE ExtractPage(p, i + 1,
                   Append(annotations, ExtractWidget(File[p][i], annotations)),
                   bad)

\* ExtractPages as it would be without the test `if annotations`: a page
\* is appended whether or not it has annotations.
RECURSIVE ExtractPagesKeepingEmpty(_, _, _, _)
ExtractPagesKeepingEmpty(p, last, tree, bad) ==
  IF p > last THEN tree
  ELSE ExtractPagesKeepingEmpty(
         p + 1, last, Append(tree, Pages(p, ExtractPage(p, 1, <<>>, bad))),
         bad)

\* The loop over the pages from page p up to page `last`; a page without
\* annotations is not appended.
RECURSIVE ExtractPages(_, _, _, _)
ExtractPages(p, last, tree, bad) ==
  IF p > last THEN tree
  ELSE LET annotations == ExtractPage(p, 1, <<>>, bad)
       IN ExtractPages(p + 1, last,
                       IF Len(annotations) > 0
                       THEN Append(tree, Pages(p, annotations)) ELSE tree,
                       bad)

\* __read_pdf.  openFails: fitz.open raises.  enumFail: the page whose
\* widget enumeration raises (0: none); that is outside the inner try, so
\* the outer handler logs and re-raises, and doc.close() is not reached.
read_pdf(openFails, enumFail, bad) ==
  IF openFails
  THEN [doc |-> "None", pages |-> <<>>, raised |-> TRUE]
  ELSE IF enumFail > 0
  THEN [doc |-> "open", pages |-> ExtractPages(1, enumFail - 1, <<>>, bad),
        raised |-> TRUE]
  ELSE [doc |-> "None", pages |-> ExtractPages(1, Len(File), <<>>, bad),
        raised |-> FALSE]

\* The widgets whose extraction may raise: at most one per construction.
BadChoices == {{}} \cup {{r} : r \in WidgetRefs}

\* ------------------------------------------------------------------ state

VARIABLES
  phase,     \* "new": before the constructor; "ready": constructed;
             \* "failed": the constructor raised, there is no object
  doc,       \* self.doc: "None", "open", or "closed" (a closed Document)
  pages,     \* self.pages, the in-memory tree
  widgets,   \* the widgets of the engine's document, page by page
  saved,     \* the files doc.save has written: [path, content]
  updates,   \* the update calls made so far
  lastOp,    \* the last operation called
  result,    \* what it returned ("True", "None", "Json") or raised
  trace,     \* the widget assignments and commits it made, in order
  issued     \* the update calls the last bulk import issued

vars == <<phase, doc, pages, widgets, saved, updates, lastOp, result, trace,
          issued>>

Init ==
  /\ phase = "new"
  /\ doc = "None"
  /\ pages = <<>>
  /\ widgets = File
  /\ saved = <<>>
  /\ updates = 0
  /\ lastOp = "none"
  /\ result = "None"
  /\ trace = <<>>
  /\ issued = <<>>

\* AnnotationForm(pdf_path, name, year, version)
Construct(openFails, enumFail, bad) ==
  /\ phase = "new"
  /\ \E r \in {read_pdf(openFails, enumFail, bad)} :
       /\ phase' = IF r.raised THEN "failed" ELSE "ready"
       /\ doc' = r.doc
       /\ pages' = r.pages
       /\ result' = IF r.raised THEN "Raised" ELSE "None"
  /\ lastOp' = "construct"
  /\ UNCHANGED <<widgets, saved, updates, trace, issued>>

\* ------------------------------------------------------------ the handle

\* `not self.doc`: None is falsy; a Document has no __bool__, so its truth
\* is len(doc) != 0, and len() of a closed Document raises ValueError.
\* The file has pages, so an open Document is truthy.
NotDocRaises(d) == d = "closed"
NotDoc(d) == d = "None"

\* Outcome as it would be if a call that raises released the handle on its
\* way out (a close in the exception handler).
OutcomeClosingOnError(d, ws, res, ops) ==
  [doc |-> IF res = "True" THEN d ELSE "closed", widgets |-> ws,
   result |-> res, trace |-> ops]

\* What one call leaves behind: the handle, the document's widgets, the
\* value returned or the error raised, and the widget operations made.
Outcome(d, ws, res, ops) ==
  [doc |-> d, widgets |-> ws, result |-> res, trace |-> ops]

\* --------------------------------------------------------- widget lookup

\* __find_widget_by_annotation_id: the index on the page of the first
\* widget whose field_name equals annotation_id, 0 for None.
find_widget_by_annotation_id(page, annotation_id) ==
  LET hits == {i \in 1..Len(page) : page[i].field_name = Some(annotation_id)}
  IN IF hits = {} THEN 0 ELSE CHOOSE i \in hits : \A j \in hits : i <= j

\* __find_widget_by_label as it would be if the scan kept the last widget
\* with the label instead of returning at the first.
find_widget_by_label_last(page, label) ==
  LET hits == {i \in 1..Len(page) : page[i].field_label = Some(label)}
  IN IF hits = {} THEN 0 ELSE CHOOSE i \in hits : \A j \in hits : i >= j

\* __find_widget_by_label: the same scan on field_label.
find_widget_by_label(page, label) ==
  LET hits == {i \in 1..Len(page) : page[i].field_label = Some(label)}
  IN IF hits = {} THEN 0 ELSE CHOOSE i \in hits : \A j \in hits : i <= j

\* ---------------------------------------------------------- field update

\* One sub-field step on the widget object: the assignments `ops`, which
\* make the widget `assigned`, then widget.update().  When update() raises
\* (failAt = k) the assignments never reach the document.
Commit(st, k, failAt, assigned, ops) ==
  IF st.raised THEN st
  ELSE IF failAt = k
  THEN [w |-> st.w, ops |-> st.ops \o ops \o <<"update_raises">>,
        raised |-> TRUE]
  ELSE [w |-> assigned, ops |-> st.ops \o ops \o <<"update">>,
        raised |-> FALSE]

\* fitz.Rect(pos.x, pos.y, pos.x + pos.width, pos.y + pos.height)
NewRect(pos) ==
  <<PyFloat(pos.x), PyFloat(pos.y), PyFloat(pos.x + pos.width),
    PyFloat(pos.y + pos.height)>>

\* The four sub-field steps, each on the state st = [w, ops, raised] the
\* steps before it left.
\* if field_value.default_value: widget.field_value = ...; widget.update()
StepValue(st, field_value, failAt) ==
  IF TruthyStr(field_value.default_value)
  THEN Commit(st, 1, failAt,
              [st.w EXCEPT !.field_value = field_value.default_value],
              <<"field_value">>)
  ELSE st

\* if field_value.position: widget.rect = new_rect; widget.update()
StepPosition(st, field_value, failAt) ==
  IF ~IsNone(field_value.position)
  THEN Commit(st, 2, failAt,
              [st.w EXCEPT !.rect = NewRect(Get(field_value.position))],
              <<"rect">>)
  ELSE st

\* if field_value.formatting: font size and family when truthy, then one
\* widget.update()
StepFormatting(st, field_value, failAt) ==
  IF ~IsNone(field_value.formatting)
  THEN LET fmt == Get(field_value.formatting)
           w1 == IF TruthyInt(fmt.font_size)
                 THEN [st.w EXCEPT !.text_fontsize = Get(fmt.font_size)]
                 ELSE st.w
           w2 == IF TruthyStr(fmt.font_family)
                 THEN [w1 EXCEPT !.text_font = Get(fmt.font_family)]
                 ELSE w1
       IN Commit(st, 3, failAt, w2,
                 (IF TruthyInt(fmt.font_size)
                  THEN <<"text_fontsize">> ELSE <<>>) \o
                 (IF TruthyStr(fmt.font_family)
                  THEN <<"text_font">> ELSE <<>>))
  ELSE st

\* if field_value.label: widget.field_label = ...; widget.update()
StepLabel(st, field_value, failAt) ==
  IF TruthyStr(field_value.label)
  THEN Commit(st, 4, failAt,
              [st.w EXCEPT !.field_label = field_value.label],
              <<"field_label">>)
  ELSE st

\* The steps as they would be with the label step moved to the front.
StepsLabelFirst(w, field_value, failAt) ==
  CHOOSE s4 \in
    {StepFormatting(s3, field_value, failAt) : s3 \in
      {StepPosition(s2, field_value, failAt) : s2 \in
        {StepValue(s1, field_value, failAt) : s1 \in
          {StepLabel([w |-> w, ops |-> <<>>, raised |-> FALSE],
                     field_value, failAt)}}}} : TRUE

\* The steps as they would be with the position step left out.
StepsWithoutPosition(w, field_value, failAt) ==
  CHOOSE s4 \in
    {StepLabel(s3, field_value, failAt) : s3 \in
      {StepFormatting(s1, field_value, failAt) : s1 \in
        {StepValue([w |-> w, ops |-> <<>>, raised |-> FALSE],
                   field_value, failAt)}}} : TRUE

\* Lines 243-264 of update_field_by_anotation_id_and_page_number: value,
\* position, formatting, label, in this order.  (Each intermediate state
\* is bound as the element of a singleton set, so that it is computed
\* once.)
StepsById(w, field_value, failAt) ==
  CHOOSE s4 \in
    {StepLabel(s3, field_value, failAt) : s3 \in
      {StepFormatting(s2, field_value, failAt) : s2 \in
        {StepPosition(s1, field_value, failAt) : s1 \in
          {StepValue([w |-> w, ops |-> <<>>, raised |-> FALSE],
                     field_value, failAt)}}}} : TRUE

\* Lines 289-310 of update_field_by_label_and_page_number: the same steps
\* in the same order.
StepsByLabel(w, field_value, failAt) ==
  CHOOSE s4 \in
    {StepLabel(s3, field_value, failAt) : s3 \in
      {StepFormatting(s2, field_value, failAt) : s2 \in
        {StepPosition(s1, field_value, failAt) : s1 \in
          {StepValue([w |-> w, ops |-> <<>>, raised |-> FALSE],
                     field_value, failAt)}}}} : TRUE

\* The operations of one call, tagged with the widget they were made on.
Tagged(p, i, ops) == [k \in 1..Len(ops) |-> <<p, i, ops[k]>>]

\* update_field_by_anotation_id_and_page_number on handle d and document
\* widgets ws.  field_value is [isdict, data]: a raw dict or an UpdateField.
update_field_by_anotation_id_and_page_number(d, ws, annotation_id, page_number, field_value, failAt) ==
  IF NotDocRaises(d) THEN Outcome(d, ws, "ValueError", <<>>)
  ELSE
    LET ws1 == IF NotDoc(d) THEN File ELSE ws
        i == find_widget_by_annotation_id(ws1[page_number], annotation_id)
    IN IF i = 0 THEN Outcome("open", ws1, "WidgetNotFound", <<>>)
       ELSE IF field_value.isdict /\ ~FromDictOk(field_value.data)
       THEN Outcome("open", ws1, "TypeError", <<>>)
       ELSE
         LET uf == IF field_value.isdict THEN from_dict(field_value.data)
                   ELSE field_value.data
         IN CHOOSE o \in
              {Outcome("open", [ws1 EXCEPT ![page_number][i] = st.w],
                       IF st.raised THEN "EngineError" ELSE "True",
                       Tagged(page_number, i, st.ops)) :
               st \in {StepsById(ws1[page_number][i], uf, failAt)}} : TRUE

\* update_field_by_label_and_page_number
update_field_by_label_and_page_number(d, ws, label, page_number, field_value, failAt) ==
  IF NotDocRaises(d) THEN Outcome(d, ws, "ValueError", <<>>)
  ELSE
    LET ws1 == IF NotDoc(d) THEN File ELSE ws
        i == find_widget_by_label(ws1[page_number], label)
    IN IF i = 0 THEN Outcome("open", ws1, "WidgetNotFound", <<>>)
       ELSE IF field_value.isdict /\ ~FromDictOk(field_value.data)
       THEN Outcome("open", ws1, "TypeError", <<>>)
       ELSE
         LET uf == IF field_value.isdict THEN from_dict(field_value.data)
                   ELSE field_value.data
         IN CHOOSE o \in
              {Outcome("open", [ws1 EXCEPT ![page_number][i] = st.w],
                       IF st.raised THEN "EngineError" ELSE "True",
                       Tagged(page_number, i, st.ops)) :
               st \in {StepsByLabel(ws1[page_number][i], uf, failAt)}} : TRUE

\* ------------------------------------------------------ export and import

\* export_to_json: the JSON document of a tree.  A JSON value that may be
\* null is an Optional.
AnnData(ann) ==
  [id |-> ann.id, type |-> ann.type, label |-> ann.label,
   position |-> Some([x |-> ann.position.x, y |-> ann.position.y,
                      width |-> ann.position.width,
                      height |-> ann.position.height,
                      unit |-> ann.position.unit]),
   formatting |-> Some([font_size |-> ann.formatting.font_size,
                        font_family |-> ann.formatting.font_family,
                        alignment |-> ann.formatting.alignment,
                        max_length |-> ann.formatting.max_length,
                        pattern |-> ann.formatting.pattern,
                        required |-> ann.formatting.required]),
   data_reference |-> [path |-> ann.data_reference.path,
                       default_value |-> ann.data_reference.default_value]]

PageData(page) ==
  [page_number |-> page.page_number,
   annotations |-> [j \in 1..Len(page.annotations) |->
                      AnnData(page.annotations[j])]]

PdfInfo ==
  [name |-> "irs_f1040", year |-> 2024, version |-> "2024",
   path |-> "irs_f1040.pdf"]

export_to_json(tree) ==
  [pdf_info |-> PdfInfo,
   pages |-> Some([i \in 1..Len(tree) |-> PageData(tree[i])])]

RECURSIVE Flatten(_)
Flatten(ss) == IF Len(ss) = 0 THEN <<>> ELSE Head(ss) \o Flatten(Tail(ss))

\* self.pages flattened: the annotations in the order the two outer loops
\* of load_updated_annotaion_json visit them.
LiveAnnotations(tree) ==
  Flatten([i \in 1..Len(tree) |-> tree[i].annotations])

\* ImportedAnnotations as it would be if a page of the JSON counted by its
\* place in the pages array instead of by its page_number.
ImportedAnnotationsByPlace(json_pages) ==
  Flatten([i \in 1..Len(json_pages) |->
             [j \in 1..Len(json_pages[i].annotations) |->
                [page_number |-> i,
                 new_ann |-> json_pages[i].annotations[j]]]])

\* The imported annotations in the order the two inner loops visit them,
\* each with the page_number of the imported page that lists it.
ImportedAnnotations(json_pages) ==
  Flatten([i \in 1..Len(json_pages) |->
             [j \in 1..Len(json_pages[i].annotations) |->
                [page_number |-> json_pages[i].page_number,
                 new_ann |-> json_pages[i].annotations[j]]]])

\* update_body of lines 332-337.
UpdateBody(new_ann) ==
  [default_value |-> DictGet(new_ann.data_reference, "default_value"),
   label |-> DictGet(new_ann, "label"),
   position |-> DictGet(new_ann, "position"),
   formatting |-> DictGet(new_ann, "formatting")]

\* The calls one live annotation leads to: one per imported annotation
\* with its id, on the imported page's number.
CallsOf(ann, imported) ==
  [k \in 1..Len(imported) |->
     IF ann.id = imported[k].new_ann.id
     THEN << [annotation_id |-> ann.id,
              page_number |-> imported[k].page_number,
              update_body |-> UpdateBody(imported[k].new_ann)] >>
     ELSE <<>>]

\* The four nested loops of load_updated_annotaion_json, as the sequence
\* of update calls they reach.
ImportCalls(tree, json_pages) ==
  CHOOSE calls \in
    {Flatten([a \in 1..Len(live) |-> Flatten(CallsOf(live[a], imported))]) :
       live \in {LiveAnnotations(tree)},
       imported \in {ImportedAnnotations(json_pages)}} : TRUE

\* The calls in order from call k on; the first one that raises ends the
\* batch with its error.  ops: the widget operations made so far.
RECURSIVE RunCalls(_, _, _, _, _)
RECURSIVE AfterCall(_, _, _, _)

\* AfterCall as it would be if the batch went on after a call that raised
\* (continue-on-error).
AfterCallContinuing(o, calls, k, ops) ==
  CHOOSE r \in
    {RunCalls(o.doc, o.widgets, calls, k + 1, all) :
       all \in {ops \o o.trace}} : TRUE

RunCalls(d, ws, calls, k, ops) ==
  IF k > Len(calls)
  THEN [out |-> Outcome(d, ws, "True", ops), issued |-> calls]
  ELSE CHOOSE r \in
         {AfterCall(o, calls, k, ops) :
            o \in {update_field_by_anotation_id_and_page_number(
                     d, ws, calls[k].annotation_id, calls[k].page_number,
                     [isdict |-> TRUE, data |-> calls[k].update_body], 0)}} :
         TRUE

AfterCall(o, calls, k, ops) ==
  IF o.result # "True"
  THEN [out |-> Outcome(o.doc, o.widgets, o.result, ops \o o.trace),
        issued |-> SubSeq(calls, 1, k)]
  ELSE CHOOSE r \in
         {RunCalls(o.doc, o.widgets, calls, k + 1, all) :
            all \in {ops \o o.trace}} : TRUE

\* load_updated_annotaion_json as it would be without the test of the
\* pages key: a missing key read as an empty list of pages.
load_without_pages_check(d, ws, tree, json) ==
  LET json_pages == DictGet(json, "pages")
  IN CHOOSE r \in
       {RunCalls(d, ws, calls, 1, <<>>) :
          calls \in {ImportCalls(tree, IF IsNone(json_pages) THEN <<>>
                                       ELSE Get(json_pages))}} : TRUE

\* load_updated_annotaion_json on the parsed JSON document.
load_updated_annotaion_json(d, ws, tree, json) ==
  LET json_pages == DictGet(json, "pages")
  IN IF IsNone(json_pages) \/ Len(Get(json_pages)) = 0
     THEN [out |-> Outcome(d, ws, "InvalidJson", <<>>), issued |-> <<>>]
     ELSE CHOOSE r \in
            {RunCalls(d, ws, calls, 1, <<>>) :
               calls \in {ImportCalls(tree, Get(json_pages))}} : TRUE

\* ------------------------------------------------------------ persistence

\* save_pdf as it would be without the doc.close() after doc.save().
save_pdf_without_close(d, ws, sv, output_path) ==
  IF d = "open"
  THEN [doc |-> "open",
        saved |-> Append(sv, [path |-> IF TruthyStr(output_path)
                                       THEN Get(output_path)
                                       ELSE "output.pdf",
                              content |-> ws]),
        result |-> "None"]
  ELSE [doc |-> d, saved |-> sv,
        result |-> IF d = "closed" THEN "ValueError" ELSE "None"]

\* save_pdf(output_path) on handle d, document widgets ws and the files sv
\* written so far: when self.doc is not None, doc.save(output_path or
\* "output.pdf") and doc.close().  self.doc keeps the closed Document, and
\* doc.save on a closed Document raises ValueError.
save_pdf(d, ws, sv, output_path) ==
  IF d # "None"
  THEN IF d = "closed"
       THEN [doc |-> d, saved |-> sv, result |-> "ValueError"]
       ELSE [doc |-> "closed",
             saved |-> Append(sv, [path |-> IF TruthyStr(output_path)
                                            THEN Get(output_path)
                                            ELSE "output.pdf",
                                   content |-> ws]),
             result |-> "None"]
  ELSE [doc |-> d, saved |-> sv, result |-> "None"]

\* ----------------------------------------------------------------- inputs

\* The update payloads the callers pass, by number:
\*   1  the dict of main.py;
\*   2  the same with default_value "";
\*   3  a typed UpdateField whose Formatting() has every field None;
\*   4  a dict whose formatting is {};
\*   5  a dict whose position lacks "unit".
FieldValues ==
  << [isdict |-> TRUE,
      data |-> [default_value |-> Some("Feb"), label |-> Some("month"),
                position |-> Some([x |-> 226, y |-> 62, width |-> 76,
                                   height |-> 12, unit |-> "pt"]),
                formatting |-> Some([font_size |-> Some(12),
                                     font_family |-> Some("Arial"),
                                     alignment |-> Some("left"),
                                     max_length |-> Some(100)])]],
     [isdict |-> TRUE,
      data |-> [default_value |-> Some(""), label |-> Some("month"),
                position |-> Some([x |-> 226, y |-> 62, width |-> 76,
                                   height |-> 12, unit |-> "pt"]),
                formatting |-> Some([font_size |-> Some(12),
                                     font_family |-> Some("Arial"),
                                     alignment |-> Some("left"),
                                     max_length |-> Some(100)])]],
     [isdict |-> FALSE,
      data |-> UpdateField(None, None, None,
                           Some(Formatting(None, None, None, None, None,
                                           None)))],
     [isdict |-> TRUE, data |-> [formatting |-> Some(EmptyMap)]],
     [isdict |-> TRUE,
      data |-> [default_value |-> Some("Feb"),
                position |-> Some([x |-> 226, y |-> 62, width |-> 76,
                                   height |-> 12])]] >>

FieldValueNumbers == 1..Len(FieldValues)

\* The annotation ids and labels the callers ask for: the ids of the
\* extracted tree (field_1 is the placeholder of the unnamed widget) and
\* the labels before and after payload 1.
IdArgs == {"f1_01", "field_1", "f2_01"}
LabelArgs == {"name", "month"}

\* The sub-field step whose widget.update() raises; 0: none does.
FailSteps == 0..4

\* save_pdf's output_path.
PathArgs == <<None, Some(""), Some("filled.pdf")>>

\* An annotation of an imported JSON written by hand.
JsonAnn(id, label, default_value, position, formatting) ==
  [id |-> id, type |-> "text", label |-> label, position |-> Some(position),
   formatting |-> Some(formatting),
   data_reference |-> [path |-> id, default_value |-> default_value]]

EditedF1 ==
  JsonAnn("f1_01", None, Some("Jan"),
          [x |-> 72, y |-> 50, width |-> 76, height |-> 12, unit |-> "pt"],
          [font_size |-> Some(10), font_family |-> None])

EditedF2 ==
  JsonAnn("f2_01", Some("total"), Some(""),
          [x |-> 10, y |-> 10, width |-> 100, height |-> 12, unit |-> "pt"],
          [font_size |-> Some(8), font_family |-> Some("Arial")])

\* The JSON documents handed to the bulk import, by number:
\*   1  the export of the tree, unmodified;
\*   2  a document without the pages key;
\*   3  a document whose pages array is empty;
\*   4  pages whose annotations match no id of the tree, one page empty;
\*   5  two edited annotations on their own pages;
\*   6  the same two annotations, both listed under page 3.
JsonInputs(tree) ==
  << export_to_json(tree),
     [pdf_info |-> PdfInfo],
     [pdf_info |-> PdfInfo, pages |-> Some(<<>>)],
     [pdf_info |-> PdfInfo,
      pages |-> Some(<< [page_number |-> 1,
                         annotations |-> << JsonAnn("other_field", None,
                                                    Some("x"), EditedF1.position[1],
                                                    EditedF1.formatting[1]) >>],
                        [page_number |-> 2, annotations |-> <<>>] >>)],
     [pdf_info |-> PdfInfo,
      pages |-> Some(<< [page_number |-> 1, annotations |-> <<EditedF1>>],
                        [page_number |-> 3, annotations |-> <<EditedF2>>] >>)],
     [pdf_info |-> PdfInfo,
      pages |-> Some(<< [page_number |-> 3,
                         annotations |-> <<EditedF1, EditedF2>>] >>)] >>

JsonInputNumbers == 1..Len(JsonInputs(<<>>))

\* ---------------------------------------------------------------- actions

UpdateById(annotation_id, page_number, n, failAt) ==
  /\ phase = "ready"
  /\ updates < MaxUpdates
  /\ \E o \in {update_field_by_anotation_id_and_page_number(
                  doc, widgets, annotation_id, page_number, FieldValues[n],
                  failAt)} :
       /\ doc' = o.doc
       /\ widgets' = o.widgets
       /\ result' = o.result
       /\ trace' = o.trace
  /\ updates' = updates + 1
  /\ lastOp' = "update_by_id"
  /\ issued' = <<>>
  /\ UNCHANGED <<phase, pages, saved>>

UpdateByLabel(label, page_number, n, failAt) ==
  /\ phase = "ready"
  /\ updates < MaxUpdates
  /\ \E o \in {update_field_by_label_and_page_number(
                  doc, widgets, label, page_number, FieldValues[n], failAt)} :
       /\ doc' = o.doc
       /\ widgets' = o.widgets
       /\ result' = o.result
       /\ trace' = o.trace
  /\ updates' = updates + 1
  /\ lastOp' = "update_by_label"
  /\ issued' = <<>>
  /\ UNCHANGED <<phase, pages, saved>>

LoadJson(n) ==
  /\ phase = "ready"
  /\ updates < MaxUpdates
  /\ \E r \in {load_updated_annotaion_json(doc, widgets, pages,
                                           JsonInputs(pages)[n])} :
       /\ doc' = r.out.doc
       /\ widgets' = r.out.widgets
       /\ result' = r.out.result
       /\ trace' = r.out.trace
       /\ issued' = r.issued
  /\ updates' = updates + 1
  /\ lastOp' = "load_json"
  /\ UNCHANGED <<phase, pages, saved>>

\* export_to_json as it would be if it opened the document to read it.
ExportJsonOpeningDocument ==
  /\ phase = "ready"
  /\ lastOp' = "export"
  /\ result' = "Json"
  /\ trace' = <<>>
  /\ issued' = <<>>
  /\ doc' = IF doc = "None" THEN "open" ELSE doc
  /\ UNCHANGED <<phase, pages, widgets, saved, updates>>

\* export_to_json returns the JSON text of self.pages; it touches nothing.
ExportJson ==
  /\ phase = "ready"
  /\ lastOp' = "export"
  /\ result' = "Json"
  /\ trace' = <<>>
  /\ issued' = <<>>
  /\ UNCHANGED <<phase, doc, pages, widgets, saved, updates>>

SavePdf(output_path) ==
  /\ phase = "ready"
  /\ \E r \in {save_pdf(doc, widgets, saved, output_path)} :
       /\ doc' = r.doc
       /\ saved' = r.saved
       /\ result' = r.result
  /\ lastOp' = "save_pdf"
  /\ trace' = <<>>
  /\ issued' = <<>>
  /\ UNCHANGED <<phase, pages, widgets, updates>>

Next ==
  \/ \E openFails \in BOOLEAN, enumFail \in 0..Len(File), bad \in BadChoices :
       Construct(openFails, enumFail, bad)
  \/ \E annotation_id \in IdArgs, page_number \in PageNumbers,
        n \in FieldValueNumbers, failAt \in FailSteps :
       UpdateById(annotation_id, page_number, n, failAt)
  \/ \E label \in LabelArgs, page_number \in PageNumbers,
        n \in FieldValueNumbers, failAt \in FailSteps :
       UpdateByLabel(label, page_number, n, failAt)
  \/ \E n \in JsonInputNumbers : LoadJson(n)
  \/ ExportJson
  \/ \E k \in 1..Len(PathArgs) : SavePdf(PathArgs[k])

Spec == Init /\ [][Next]_vars

\* ----------------------------------------------------------------- claims

\* A step that is a call of update_field_by_anotation_id_and_page_number
\* or of update_field_by_label_and_page_number.
IsUpdateCall ==
  updates' = updates + 1 /\ lastOp' \in {"update_by_id", "update_by_label"}

\* What a caller can observe of a widget: value, label, bounding box and
\* font size and family.
Observable(w) ==
  <<w.field_value, w.field_label, w.rect, w.text_fontsize, w.text_font>>

ObservableAll(ws) ==
  [p \in DOMAIN ws |-> [i \in DOMAIN ws[p] |-> Observable(ws[p][i])]]

\* The document the next call works on: the file when the handle has yet to
\* be opened, the open document otherwise.
Live == IF doc = "None" THEN File ELSE widgets

\* C1: every update call leaves the document handle open, also when the
\* handle was closed before the call, by the extraction of the constructor
\* (self.doc is None) or by an earlier save_pdf: the call reopens the
\* document before it looks up the widget.
C1_UpdateReopensClosedHandle ==
  [][(IsUpdateCall /\ doc # "open") => doc' = "open"]_vars

\* C2: save_pdf called while no document handle is open (after
\* construction, or after an earlier save_pdf closed it) returns without
\* raising, writes nothing and changes nothing of the session.
C2_SaveWithoutOpenHandleIsNoOp ==
  [][(lastOp' = "save_pdf" /\ doc # "open") =>
       (result' = "None" /\
        UNCHANGED <<phase, doc, pages, widgets, saved, updates>>)]_vars

\* C3: when the constructor's extraction is over, whether it returned or
\* raised, the document it opened is closed again: no open handle is left.
C3_ExtractionReleasesHandle ==
  lastOp = "construct" => doc # "open"

\* C4: importing the unmodified export of the tree (JSON input 1) returns
\* true and leaves value, label, bounding box and font of every widget as
\* they were.
C4_ExportImportRoundTrip ==
  [][LoadJson(1) =>
       (result' = "True" /\ ObservableAll(widgets') = ObservableAll(Live))]_vars

\* The JSON has a pages key, and no imported annotation has the id of a
\* live annotation.
HasPagesKey(json) == "pages" \in DOMAIN json /\ ~IsNone(json.pages)

NoMatchingId(tree, json) ==
  LET live == LiveAnnotations(tree)
      imported == ImportedAnnotations(Get(json.pages))
  IN \A a \in 1..Len(live), b \in 1..Len(imported) :
       live[a].id # imported[b].new_ann.id

\* C5: a bulk import whose JSON has a pages key and matches no live id
\* (an empty pages array and empty annotation lists included) returns true
\* and makes no update call and no widget mutation.
C5_ImportWithoutMatchSucceeds ==
  [][\A n \in JsonInputNumbers :
       (/\ HasPagesKey(JsonInputs(pages)[n])
        /\ NoMatchingId(pages, JsonInputs(pages)[n])
        /\ LoadJson(n)) =>
         (/\ result' = "True"
          /\ issued' = <<>>
          /\ trace' = <<>>
          /\ ObservableAll(widgets') = ObservableAll(Live))]_vars

\* The id is the field name of no widget of the page, and of a widget of
\* another page.
OnAnotherPageOnly(ws, annotation_id, page_number) ==
  /\ find_widget_by_annotation_id(ws[page_number], annotation_id) = 0
  /\ \E q \in PageNumbers \ {page_number} :
       find_widget_by_annotation_id(ws[q], annotation_id) # 0

\* C6: an update by id on a valid page that does not hold the id, while
\* another page does, raises the widget-not-found error and changes no
\* widget of any page.
C6_IdOnAnotherPageIsNotFound ==
  [][\A annotation_id \in IdArgs, page_number \in PageNumbers :
       (/\ updates' = updates + 1
        /\ lastOp' = "update_by_id"
        /\ OnAnotherPageOnly(Live, annotation_id, page_number)
        /\ \E n \in FieldValueNumbers, failAt \in FailSteps :
             UpdateById(annotation_id, page_number, n, failAt)) =>
         (/\ result' = "WidgetNotFound"
          /\ ObservableAll(widgets') = ObservableAll(Live))]_vars

\* C6 for the calls made on a handle that is None or open: the claim holds
\* of all of them.
C6_OnUsableHandle ==
  [][\A annotation_id \in IdArgs, page_number \in PageNumbers :
       (/\ updates' = updates + 1
        /\ lastOp' = "update_by_id"
        /\ doc # "closed"
        /\ OnAnotherPageOnly(Live, annotation_id, page_number)
        /\ \E n \in FieldValueNumbers, failAt \in FailSteps :
             UpdateById(annotation_id, page_number, n, failAt)) =>
         (/\ result' = "WidgetNotFound"
          /\ trace' = <<>>
          /\ ObservableAll(widgets') = ObservableAll(Live))]_vars

\* C7: an update call that opened the handle or found it open leaves it
\* open, whether it returns true or raises; a bulk import that found it
\* open leaves it open; the only step that ends an open handle is save_pdf.
C7_UpdatesKeepHandleOpen ==
  [][/\ (IsUpdateCall /\ doc # "closed") => doc' = "open"
     /\ (updates' = updates + 1 /\ doc = "open") => doc' = "open"
     /\ (doc = "open" /\ doc' # "open") => lastOp' = "save_pdf"]_vars

\* An update raised after an earlier update of the session, and the handle
\* is open.
C7_Witness ==
  /\ updates = 2
  /\ lastOp \in {"update_by_id", "update_by_label"}
  /\ result \in {"WidgetNotFound", "EngineError"}
  /\ doc = "open"

\* C8: save_pdf called with an open handle writes the document once, with
\* the widgets as the updates committed them, to output_path, or to
\* "output.pdf" when output_path is None or empty, and the handle is
\* closed afterwards.
C8_SaveWritesOnceAndCloses ==
  [][\A k \in 1..Len(PathArgs) :
       (doc = "open" /\ SavePdf(PathArgs[k])) =>
         (/\ saved' = Append(saved,
                             [path |-> IF k = 3 THEN "filled.pdf"
                                       ELSE "output.pdf",
                              content |-> widgets])
          /\ doc' = "closed"
          /\ result' = "None")]_vars

\* A save has written a document that an update changed.
C8_Witness ==
  /\ lastOp = "save_pdf"
  /\ doc = "closed"
  /\ Len(saved) = 1
  /\ saved[1].content # File
  /\ saved[1].content = widgets

\* What payload 2 (default_value "", label "month", the position
\* (226, 62, 76, 12) and the formatting 12/"Arial") must leave of widget i
\* of page p: the value it had, no assignment of the value, and, when no
\* widget.update() raises, the three other sub-fields applied by one commit
\* each.  Rectangles are in half points.
C9_Post(p, i, failAt) ==
  /\ widgets'[p][i].field_value = Live[p][i].field_value
  /\ \A k \in 1..Len(trace') : trace'[k][3] # "field_value"
  /\ failAt = 0 =>
       /\ result' = "True"
       /\ widgets'[p][i].rect = <<452, 124, 604, 148>>
       /\ widgets'[p][i].text_fontsize = 12
       /\ widgets'[p][i].text_font = "Arial"
       /\ widgets'[p][i].field_label = Some("month")
       /\ trace' = << <<p, i, "rect">>, <<p, i, "update">>,
                      <<p, i, "text_fontsize">>, <<p, i, "text_font">>,
                      <<p, i, "update">>, <<p, i, "field_label">>,
                      <<p, i, "update">> >>

\* The update calls of a step with payload n, by id or by label, that have
\* a target widget; `handles` are the handle states the calls start from.
C9_Calls(handles) ==
  /\ \A annotation_id \in IdArgs, page_number \in PageNumbers,
        failAt \in FailSteps :
       (/\ updates' = updates + 1
        /\ lastOp' = "update_by_id"
        /\ doc \in handles
        /\ find_widget_by_annotation_id(Live[page_number], annotation_id) # 0
        /\ UpdateById(annotation_id, page_number, 2, failAt)) =>
         C9_Post(page_number,
                 find_widget_by_annotation_id(Live[page_number],
                                              annotation_id), failAt)
  /\ \A label \in LabelArgs, page_number \in PageNumbers,
        failAt \in FailSteps :
       (/\ updates' = updates + 1
        /\ lastOp' = "update_by_label"
        /\ doc \in handles
        /\ find_widget_by_label(Live[page_number], label) # 0
        /\ UpdateByLabel(label, page_number, 2, failAt)) =>
         C9_Post(page_number, find_widget_by_label(Live[page_number], label),
                 failAt)

\* C9: an update whose default_value is "" leaves the value of its target
\* widget as it was and makes no commit for it, and applies the position,
\* the formatting and the label of the same payload.
C9_EmptyValueLeavesValue ==
  [][C9_Calls({"None", "open", "closed"})]_vars

\* C9 for the calls made on a handle that is None or open: the claim holds
\* of all of them.
C9_OnUsableHandle ==
  [][C9_Calls({"None", "open"})]_vars

\* The update calls by id of a step with payload 1 (the dict of main.py)
\* on a widget the page holds, when no widget.update() raises: the call
\* returns true, the widget has value "Feb", label "month", bounding box
\* (226, 62, 302, 74), font size 12 and font family "Arial", and every
\* other widget is as it was.
C10_Calls(handles) ==
  \A annotation_id \in IdArgs, page_number \in PageNumbers :
    LET i == find_widget_by_annotation_id(Live[page_number], annotation_id)
    IN (/\ updates' = updates + 1
        /\ lastOp' = "update_by_id"
        /\ doc \in handles
        /\ i # 0
        /\ UpdateById(annotation_id, page_number, 1, 0)) =>
         (/\ result' = "True"
          /\ Observable(widgets'[page_number][i]) =
               <<Some("Feb"), Some("month"), <<452, 124, 604, 148>>, 12,
                 "Arial">>
          /\ \A r \in WidgetRefs \ {<<page_number, i>>} :
               widgets'[r[1]][r[2]] = Live[r[1]][r[2]])

\* C10: an update by id on an existing widget with a payload of non-empty
\* value v, non-empty label l, position (x, y, width, height) and
\* formatting (s, f) returns true and leaves the widget with value v,
\* label l, bounding box (x, y, x + width, y + height), font size s and
\* font family f, and no other widget changed.
C10_FullUpdateApplied ==
  [][C10_Calls({"None", "open", "closed"})]_vars

\* C10 for the calls made on a handle that is None or open: the claim
\* holds of all of them.
C10_OnUsableHandle ==
  [][C10_Calls({"None", "open"})]_vars

\* `not updated_annotations_json.get("pages")` is false: the key is there
\* and its array is not empty.
TruthyPagesOf(json) ==
  "pages" \in DOMAIN json /\ ~IsNone(json.pages) /\ Len(Get(json.pages)) > 0

\* The pages array of JSON input n, when the import gets past its test of
\* the pages key (the key is there and the array is not empty).
ImportRuns(n) == TruthyPagesOf(JsonInputs(pages)[n])

\* A batch of update calls made one after the other from call k on, up to
\* and including the first that raises: failed is the number of that call
\* (0: none raised), widgets and trace what the calls before it left.
RECURSIVE BatchUntilError(_, _, _, _, _)
BatchUntilError(d, ws, calls, k, ops) ==
  IF k > Len(calls)
  THEN [failed |-> 0, result |-> "True", widgets |-> ws, trace |-> ops]
  ELSE CHOOSE e \in
         {IF o.result = "True"
          THEN BatchUntilError(o.doc, o.widgets, calls, k + 1, ops \o o.trace)
          ELSE [failed |-> k, result |-> o.result, widgets |-> o.widgets,
                trace |-> ops \o o.trace] :
            o \in {update_field_by_anotation_id_and_page_number(
                     d, ws, calls[k].annotation_id, calls[k].page_number,
                     [isdict |-> TRUE, data |-> calls[k].update_body], 0)}} :
         TRUE

\* C11: when a call of a bulk import raises, the import raises the same
\* error, the calls after it are not made, and the widgets hold what the
\* calls before it committed: no rollback and no continue-on-error.
C11_ImportAbortsWithoutRollback ==
  [][\A n \in JsonInputNumbers :
       (/\ updates' = updates + 1
        /\ lastOp' = "load_json"
        /\ ImportRuns(n)
        /\ LoadJson(n)) =>
         \A e \in {BatchUntilError(
                     doc, widgets,
                     ImportCalls(pages, Get(JsonInputs(pages)[n].pages)),
                     1, <<>>)} :
           e.failed > 0 =>
             /\ result' = e.result
             /\ result' # "True"
             /\ Len(issued') = e.failed
             /\ widgets' = e.widgets
             /\ trace' = e.trace]_vars

\* An import raised at its second call, and the widget its first call
\* updated has the font the import gave it.
C11_Witness ==
  /\ lastOp = "load_json"
  /\ result = "WidgetNotFound"
  /\ Len(issued) = 2
  /\ trace # <<>>
  /\ widgets[1][1].text_font = "Arial"
  /\ File[1][1].text_font = "Helv"

\* The pairs (live annotation, imported annotation) of equal id, each as
\* <<live page, live annotation, imported page, imported annotation>>, the
\* places in the tree and in the pages array.
MatchingPairs(tree, json_pages) ==
  {q \in UNION {UNION {UNION {{<<lp, la, ip, ia>> :
         ia \in 1..Len(json_pages[ip].annotations)} :
         ip \in 1..Len(json_pages)} :
         la \in 1..Len(tree[lp].annotations)} :
         lp \in 1..Len(tree)} :
     tree[q[1]].annotations[q[2]].id = json_pages[q[3]].annotations[q[4]].id}

\* q1 comes before q2 in the order of the four nested loops.
PairBefore(q1, q2) ==
  \E c \in 1..4 : q1[c] < q2[c] /\ \A b \in 1..(c - 1) : q1[b] = q2[b]

\* The call the import is to make for a pair.
CallOfPair(q, tree, json_pages) ==
  LET b == json_pages[q[3]].annotations[q[4]]
  IN [annotation_id |-> tree[q[1]].annotations[q[2]].id,
      page_number |-> json_pages[q[3]].page_number,
      update_body |-> [default_value |-> b.data_reference.default_value,
                       label |-> b.label, position |-> b.position,
                       formatting |-> b.formatting]]

C12_WitnessComplete ==
  /\ lastOp = "load_json"
  /\ result = "True"
  /\ Len(issued) = 2
  /\ issued[2].page_number = 3

\* C13: a bulk import of a JSON without the pages key (JSON input 2)
\* raises, issues no update call, makes no widget operation, and leaves the
\* handle and the widgets as they were.
C13_MissingPagesIsFatalBeforeMutation ==
  [][LoadJson(2) =>
       (/\ "pages" \notin DOMAIN JsonInputs(pages)[2]
        /\ result' = "InvalidJson"
        /\ issued' = <<>>
        /\ trace' = <<>>
        /\ UNCHANGED <<doc, widgets, pages, saved>>)]_vars

\* An import was refused on a session whose handle is open and whose
\* document an earlier update changed.
C13_Witness ==
  /\ lastOp = "load_json"
  /\ result = "InvalidJson"
  /\ doc = "open"
  /\ widgets # File
  /\ updates = 2

\* The widgets of page p whose extraction does not raise, by their place
\* in the enumeration, and the rank of widget j among them.
Extracted(p, bad) == {j \in 1..Len(File[p]) : <<p, j>> \notin bad}

RankOf(p, j, bad) == 1 + Cardinality({j0 \in Extracted(p, bad) : j0 < j})

\* Annotation ann was made from widget w: the truncated rectangle, the
\* label and the value of w.
MadeFrom(ann, w) ==
  /\ ann.position = [x |-> w.rect[1] \div 2, y |-> w.rect[2] \div 2,
                     width |-> (w.rect[3] - w.rect[1]) \div 2,
                     height |-> (w.rect[4] - w.rect[2]) \div 2, unit |-> "pt"]
  /\ ann.label = w.field_label
  /\ ann.data_reference.default_value =
       IF w.field_value \in {<<>>, <<"">>} THEN <<"">> ELSE w.field_value

\* C14: a constructor whose extraction returns leaves a tree with one Page
\* for every page of the document that has an extracted widget and for no
\* other, in increasing page order with the 1-based page number, and the
\* annotations of each Page are its extracted widgets in enumeration order.
C14_ExtractionPreservesOrder ==
  [][\A bad \in BadChoices :
       Construct(FALSE, 0, bad) =>
         /\ {pages'[m].page_number : m \in 1..Len(pages')} =
              {p \in PageNumbers : Extracted(p, bad) # {}}
         /\ \A m1, m2 \in 1..Len(pages') :
              m1 < m2 => pages'[m1].page_number < pages'[m2].page_number
         /\ \A m \in 1..Len(pages') :
              \A p \in {pages'[m].page_number} :
                /\ Len(pages'[m].annotations) = Cardinality(Extracted(p, bad))
                /\ \A j \in Extracted(p, bad) :
                     MadeFrom(pages'[m].annotations[RankOf(p, j, bad)],
                              File[p][j])]_vars

\* The tree of a document whose page 2 has no widget: page 1 with its two
\* widgets in order, then page 3.
C14_Witness ==
  /\ phase = "ready"
  /\ lastOp = "construct"
  /\ Len(pages) = 2
  /\ pages[1].page_number = 1
  /\ pages[2].page_number = 3
  /\ pages[1].annotations[1].id = "f1_01"
  /\ pages[1].annotations[2].type = "checkbox"

\* The placeholder ids by the number of annotations collected before.
PlaceholderIds == <<"field_0", "field_1", "field_2">>

\* C15: in the tree of a constructor that returns, the id of an annotation
\* is the field name of its widget, or, when the name is absent or empty,
\* field_<n> with n the number of annotations collected on the page before
\* it, skipped widgets not counted; a widget whose extraction raised has no
\* annotation, and the widgets after it on the page have theirs.
C15_PlaceholderCountsCollected ==
  [][\A bad \in BadChoices :
       Construct(FALSE, 0, bad) =>
         \A m \in 1..Len(pages') :
           \A p \in {pages'[m].page_number} :
             /\ \A j \in Extracted(p, bad) :
                  /\ RankOf(p, j, bad) <= Len(pages'[m].annotations)
                  /\ pages'[m].annotations[RankOf(p, j, bad)].id =
                       IF File[p][j].field_name \in {<<>>, <<"">>}
                       THEN PlaceholderIds[RankOf(p, j, bad)]
                       ELSE File[p][j].field_name[1]
             /\ \A a \in 1..Len(pages'[m].annotations) :
                  \E j \in Extracted(p, bad) :
                    MadeFrom(pages'[m].annotations[a], File[p][j])]_vars

\* The first widget of page 1 raised and was skipped; the unnamed widget
\* after it was extracted, as the first annotation of the page, field_0.
C15_Witness ==
  /\ phase = "ready"
  /\ lastOp = "construct"
  /\ Len(pages[1].annotations) = 1
  /\ pages[1].page_number = 1
  /\ pages[1].annotations[1].id = "field_0"
  /\ pages[1].annotations[1].type = "checkbox"

\* The first widget of a page with the label, 0 when there is none.
FirstWithLabel(page, label) ==
  IF \E i \in 1..Len(page) : page[i].field_label = <<label>>
  THEN CHOOSE i \in 1..Len(page) :
         /\ page[i].field_label = <<label>>
         /\ \A j \in 1..(i - 1) : page[j].field_label # <<label>>
  ELSE 0

\* C16: an update by label makes its widget operations on the first widget
\* of the page that has the label and on no other, and leaves every other
\* widget, those with the same label included, as it was; when it returns
\* true with the payload of main.py, the first widget has the new label
\* and value.  (The first conjunct is written as a contrapositive: a step
\* that does not fit the first match of a label and page is no call with
\* that label and page.)
C16_LabelUpdateHitsFirstMatch ==
  [][(updates' = updates + 1 /\ lastOp' = "update_by_label") =>
       \A label \in LabelArgs, page_number \in PageNumbers :
         \A first \in {FirstWithLabel(Live[page_number], label)} :
           /\ ~(/\ \A k \in 1..Len(trace') :
                     trace'[k][1] = page_number /\ trace'[k][2] = first
                /\ \A r \in WidgetRefs \ {<<page_number, first>>} :
                     widgets'[r[1]][r[2]] = Live[r[1]][r[2]]) =>
                ~(\E n \in FieldValueNumbers, failAt \in FailSteps :
                    UpdateByLabel(label, page_number, n, failAt))
           /\ (result' = "True" /\ UpdateByLabel(label, page_number, 1, 0)) =>
                /\ first # 0
                /\ widgets'[page_number][first].field_label = <<"month">>
                /\ widgets'[page_number][first].field_value = <<"Feb">>]_vars

\* Two widgets of page 1 had the label "name"; an update by label "name"
\* renamed the first and left the second.
C16_Witness ==
  /\ lastOp = "update_by_label"
  /\ result = "True"
  /\ File[1][1].field_label = File[1][2].field_label
  /\ widgets[1][1].field_label = <<"month">>
  /\ widgets[1][2] = File[1][2]

\* The export of a tree lists its pages and their annotations in the order
\* of the tree.
ExportKeepsOrder(tree) ==
  \A json_pages \in {export_to_json(tree).pages[1]} :
    /\ Len(json_pages) = Len(tree)
    /\ \A i \in 1..Len(tree) :
         /\ json_pages[i].page_number = tree[i].page_number
         /\ Len(json_pages[i].annotations) = Len(tree[i].annotations)
         /\ \A j \in 1..Len(tree[i].annotations) :
              json_pages[i].annotations[j].id = tree[i].annotations[j].id

\* C17: export_to_json changes neither the handle nor a widget nor the
\* tree nor a saved file; it lists the pages and the annotations of the
\* tree in their order; and no call after the constructor changes the
\* tree, so that every export of a session is the export of the tree the
\* constructor built.
C17_ExportIsPure ==
  /\ [](phase = "ready" => ExportKeepsOrder(pages))
  /\ [][/\ lastOp' = "export" => UNCHANGED <<doc, widgets, pages, saved>>
        /\ phase = "ready" =>
             (pages' = pages /\
              export_to_json(pages') = export_to_json(pages))]_vars

\* An export made after an update and a save: the handle is still the
\* closed one and the document is the updated one.
C17_Witness ==
  /\ lastOp = "export"
  /\ result = "Json"
  /\ doc = "closed"
  /\ Len(saved) = 1
  /\ widgets # File

\* The UpdateField of payload n.
PayloadOk(n) == FieldValues[n].isdict => FromDictOk(FieldValues[n].data)

PayloadField(n) ==
  IF FieldValues[n].isdict THEN from_dict(FieldValues[n].data)
  ELSE FieldValues[n].data

\* Sub-field step k (1 value, 2 position, 3 formatting, 4 label) is taken
\* for an UpdateField; the assignments it makes; the widget has what it
\* assigns; the widget has of it what another widget has.
StepPresent(uf, k) ==
  CASE k = 1 -> uf.default_value \notin {<<>>, <<"">>}
    [] k = 2 -> uf.position # <<>>
    [] k = 3 -> uf.formatting # <<>>
    [] k = 4 -> uf.label \notin {<<>>, <<"">>}
    [] OTHER -> FALSE

StepAssignments(uf, k) ==
  CASE k = 1 -> <<"field_value">>
    [] k = 2 -> <<"rect">>
    [] k = 3 -> (IF uf.formatting[1].font_size \notin {<<>>, <<0>>}
                 THEN <<"text_fontsize">> ELSE <<>>) \o
                (IF uf.formatting[1].font_family \notin {<<>>, <<"">>}
                 THEN <<"text_font">> ELSE <<>>)
    [] k = 4 -> <<"field_label">>

StepApplied(w, uf, k) ==
  CASE k = 1 -> w.field_value = uf.default_value
    [] k = 2 -> w.rect = <<2 * uf.position[1].x, 2 * uf.position[1].y,
                           2 * (uf.position[1].x + uf.position[1].width),
                           2 * (uf.position[1].y + uf.position[1].height)>>
    [] k = 3 -> /\ uf.formatting[1].font_size \notin {<<>>, <<0>>} =>
                     w.text_fontsize = uf.formatting[1].font_size[1]
                /\ uf.formatting[1].font_family \notin {<<>>, <<"">>} =>
                     w.text_font = uf.formatting[1].font_family[1]
    [] k = 4 -> w.field_label = uf.label

StepSame(w1, w2, k) ==
  CASE k = 1 -> w1.field_value = w2.field_value
    [] k = 2 -> w1.rect = w2.rect
    [] k = 3 -> w1.text_fontsize = w2.text_fontsize /\
                w1.text_font = w2.text_font
    [] k = 4 -> w1.field_label = w2.field_label

\* The operations of an update whose last step is `last`, the commit of
\* step `failed` raising (0: none).
StepTrace(uf, k, last, failed) ==
  IF k <= last /\ StepPresent(uf, k)
  THEN StepAssignments(uf, k) \o
       <<IF k = failed THEN "update_raises" ELSE "update">>
  ELSE <<>>

ExpectedTrace(uf, last, failed) ==
  StepTrace(uf, 1, last, failed) \o StepTrace(uf, 2, last, failed) \o
  StepTrace(uf, 3, last, failed) \o StepTrace(uf, 4, last, failed)

\* C18: in every state of a session, an update by id that finds its
\* widget and reaches its sub-field steps makes them in the order value,
\* position, formatting, label, each with its commit before the next
\* begins; when the commit of step k raises, the update raises, the
\* sub-fields of the steps before k are those of the payload and the
\* sub-fields of the steps after k are those the widget had.
C18_StepsInOrderWithoutRollback ==
  phase = "ready" =>
    \A annotation_id \in IdArgs, page_number \in PageNumbers :
      \A i \in {find_widget_by_annotation_id(Live[page_number],
                                             annotation_id)} :
        \A n \in {m \in FieldValueNumbers : PayloadOk(m)},
           failAt \in FailSteps :
          \A o \in {update_field_by_anotation_id_and_page_number(
                      doc, widgets, annotation_id, page_number,
                      FieldValues[n], failAt)} :
            (i # 0 /\ o.result \in {"True", "EngineError"}) =>
              \A uf \in {PayloadField(n)} :
                \A failed \in {IF StepPresent(uf, failAt) THEN failAt
                               ELSE 0} :
                  \A last \in {IF failed = 0 THEN 4 ELSE failed} :
                    /\ o.result = IF failed = 0 THEN "True"
                                  ELSE "EngineError"
                    /\ \A ops \in {ExpectedTrace(uf, last, failed)} :
                         o.trace = [k \in 1..Len(ops) |->
                                      <<page_number, i, ops[k]>>]
                    /\ \A k \in 1..4 :
                         /\ (StepPresent(uf, k) /\ k <= last /\ k # failed)
                              => StepApplied(o.widgets[page_number][i], uf, k)
                         /\ (k > last \/ ~StepPresent(uf, k)) =>
                              StepSame(o.widgets[page_number][i],
                                       Live[page_number][i], k)

\* An update of the payload of main.py raised at the commit of its
\* formatting: value and position are the new ones, the label the old one.
C18_Witness ==
  /\ lastOp = "update_by_id"
  /\ result = "EngineError"
  /\ trace = << <<1, 1, "field_value">>, <<1, 1, "update">>,
                <<1, 1, "rect">>, <<1, 1, "update">>,
                <<1, 1, "text_fontsize">>, <<1, 1, "text_font">>,
                <<1, 1, "update_raises">> >>
  /\ widgets[1][1].field_value = <<"Feb">>
  /\ widgets[1][1].rect = <<452, 124, 604, 148>>
  /\ widgets[1][1].field_label = <<"name">>

\* Payload n supplies a formatting object: a typed UpdateField with a
\* Formatting, or a mapping with a formatting mapping.
SuppliesFormatting(n) ==
  /\ "formatting" \in DOMAIN FieldValues[n].data
  /\ FieldValues[n].data.formatting # <<>>

\* The commits of a trace that belong to a formatting step: those with no
\* assignment but of font size and font family since the commit before.
FormattingCommits(ops) ==
  {k \in 1..Len(ops) :
     /\ ops[k][3] = "update"
     /\ \A j \in 1..(k - 1) :
          (\A m \in j..(k - 1) : ops[m][3] # "update") =>
            ops[j][3] \in {"text_fontsize", "text_font"}}

\* The update calls with a payload of `payloads` that supplies a
\* formatting object, when they return true, make one formatting commit.
C19_Calls(payloads) ==
  \A annotation_id \in IdArgs, page_number \in PageNumbers, n \in payloads :
    (/\ updates' = updates + 1
     /\ lastOp' = "update_by_id"
     /\ SuppliesFormatting(n)
     /\ result' = "True"
     /\ UpdateById(annotation_id, page_number, n, 0)) =>
      Cardinality(FormattingCommits(trace')) = 1

\* C19: an update whose payload supplies a formatting object, typed or as
\* a mapping, commits the widget once for the formatting, also when the
\* object has neither font size nor font family, as the empty mapping.
C19_FormattingCommitsOnce ==
  [][C19_Calls(FieldValueNumbers)]_vars

\* C19 for the payloads other than the one whose formatting is the empty
\* mapping {}: the claim holds of all of them.
C19_ExceptEmptyMapping ==
  [][C19_Calls(FieldValueNumbers \ {4})]_vars

\* A typed UpdateField whose Formatting() has no font size and no font
\* family made the one commit.
C19_TypedWitness ==
  /\ lastOp = "update_by_id"
  /\ result = "True"
  /\ trace = << <<1, 1, "update">> >>

\* C20: in every state of a session, an update by id and an update by
\* label with the same page number and payload (and the same commit
\* raising), with an id and a label that find the same widget of the page,
\* leave the same handle and widgets, return or raise the same, and make
\* the same widget operations.
C20_ByIdAndByLabelAgree ==
  phase = "ready" =>
    \A annotation_id \in IdArgs, label \in LabelArgs,
       page_number \in PageNumbers :
      (/\ find_widget_by_annotation_id(Live[page_number], annotation_id) # 0
       /\ find_widget_by_annotation_id(Live[page_number], annotation_id) =
            FirstWithLabel(Live[page_number], label)) =>
        \A n \in FieldValueNumbers, failAt \in FailSteps :
          update_field_by_anotation_id_and_page_number(
            doc, widgets, annotation_id, page_number, FieldValues[n],
            failAt) =
          update_field_by_label_and_page_number(
            doc, widgets, label, page_number, FieldValues[n], failAt)

\* An update by label "month" changed the widget f1_01, which an earlier
\* update had given that label.
C20_Witness ==
  /\ lastOp = "update_by_label"
  /\ updates = 2
  /\ result = "EngineError"
  /\ trace # <<>>
  /\ trace[1][1] = 1 /\ trace[1][2] = 1
  /\ File[1][1].field_name = <<"f1_01">>
  /\ File[1][1].field_label = <<"name">>
  /\ widgets[1][1].field_label = <<"month">>

====
